---- MODULE Spec2Model ----
(***************************************************************************)
(* Model of src/modal.tsx: the accessible Modal component (lines 1-379)    *)
(* and the basic Modal component (lines 382-599), driven by one host that  *)
(* mounts, re-renders and unmounts them with the same props, and by a user *)
(* who clicks and presses keys in the document.                            *)
(*                                                                         *)
(* One step of the model is one task of the browser's event loop: a host   *)
(* render (render, commit and the passive effects of that commit), the     *)
(* dispatch of one DOM event (all handlers it reaches and its default      *)
(* action), or the firing of the zero-delay focus timer.                   *)
(***************************************************************************)
EXTENDS Integers, Sequences, FiniteSets

\* Number of tabbable host-page elements before / after the modal in
\* document order.
HostBefore == 1
HostAfter == 1

---------------------------------------------------------------------------
\* Elements of the document.

El(k, i) == [kind |-> k, idx |-> i]

\* document.body: the active element when no element has focus.
Body == El("body", 0)
\* The null value of a ref.
Null == El("null", 0)

Overlay == El("modal", 1)
Content == El("modal", 2)
CloseBtn == El("modal", 3)
Title == El("modal", 4)
Icon == El("modal", 5)
Message == El("modal", 6)

ModalElements == {Overlay, Content, CloseBtn, Title, Icon, Message}

Host(i) == El("host", i)
HostElements == {Host(i) : i \in 1..(HostBefore + HostAfter)}

\* Elements inside the content box (the subtree of ModalContent).
ContentSubtree == {Content, CloseBtn, Title, Icon, Message}

\* A call made by the component: which function made it, what it called.
Call(by, fn) == [by |-> by, fn |-> fn]

Types == {"success", "error", "info"}
\* Values of the props title, message and onClose the host passes.
Titles == {"Saved", "Failed"}
Messages == {"Employee added", "Try again"}
Callbacks == {"closeA", "closeB"}
Keys == {"Escape", "Tab", "Enter"}

---------------------------------------------------------------------------
\* Pure functions of the accessible revision.

\* Variant: the colours of 'error' and 'info' exchanged.
GetIconColorSwapped(t) ==
    CASE t = "success" -> "#22c55e"
      [] t = "error" -> "#3b82f6"
      [] t = "info" -> "#ef4444"
      [] OTHER -> "#3b82f6"

GetIconColor(t) ==
    CASE t = "success" -> "#22c55e"
      [] t = "error" -> "#ef4444"
      [] t = "info" -> "#3b82f6"
      [] OTHER -> "#3b82f6"

\* Variant: the comparison inverted.
GetRoleSwapped(t) == IF t # "error" THEN "alertdialog" ELSE "dialog"

GetRole(t) == IF t = "error" THEN "alertdialog" ELSE "dialog"

OverlayDisplay(open) == IF open THEN "flex" ELSE "none"

NullView ==
    [elements |-> {}, role |-> "", ariaModal |-> FALSE,
     iconColor |-> "", display |-> ""]

\* Variant: no early return of null; visibility left to the overlay's display.
RenderAlways(open, t) ==
    [elements |-> ModalElements, role |-> GetRole(t), ariaModal |-> TRUE,
     iconColor |-> GetIconColor(t), display |-> OverlayDisplay(open)]

\* The render output of Modal for the given props.
Render(open, t) ==
    IF ~open
    THEN NullView
    ELSE [elements |-> ModalElements, role |-> GetRole(t), ariaModal |-> TRUE,
          iconColor |-> GetIconColor(t), display |-> OverlayDisplay(open)]

\* Pure functions of the basic revision.

GetIconColorBasic(t) ==
    CASE t = "success" -> "#22c55e"
      [] t = "error" -> "#ef4444"
      [] t = "info" -> "#3b82f6"
      [] OTHER -> "#3b82f6"

\* Variant: the two display values exchanged.
OverlayDisplayBasicInverted(open) == IF open THEN "none" ELSE "flex"

OverlayDisplayBasic(open) == IF open THEN "flex" ELSE "none"

RenderBasic(open, t) ==
    [elements |-> ModalElements, role |-> "", ariaModal |-> FALSE,
     iconColor |-> GetIconColorBasic(t), display |-> OverlayDisplayBasic(open)]

\* Handlers.

\* Variant: no comparison of target with currentTarget.
HandleClickOutsideAnyTarget(target, currentTarget) ==
    <<Call("handleClickOutside", "onClose")>>

\* handleClickOutside: the calls it makes for a click event.
HandleClickOutside(target, currentTarget) ==
    IF target = currentTarget
    THEN <<Call("handleClickOutside", "onClose")>>
    ELSE <<>>

\* CloseButton's onClick is the onClose prop itself.
CloseButtonOnClick == <<Call("CloseButton", "onClose")>>

\* handleKeyDown on the content box.
HandleKeyDown(key) ==
    IF key = "Escape" THEN <<Call("handleKeyDown", "onClose")>> ELSE <<>>

\* modalRef.current.querySelectorAll(...): the focusable descendants of the
\* content box in document order.  The content box itself and the overlay
\* carry tabindex -1 and title, icon and message are not focusable.
FocusableElements(elements) ==
    IF CloseBtn \in elements THEN <<CloseBtn>> ELSE <<>>

\* modalRef.current for a committed render output.
ModalRefCurrent(elements) ==
    IF Content \in elements THEN Content ELSE Null

\* x?.focus() on an element: the new active element.
FocusCall(el, elements, active) ==
    IF el = Null THEN active
    ELSE IF el \in HostElements THEN el
    ELSE IF el \in {Overlay, Content, CloseBtn} /\ el \in elements THEN el
    ELSE active

\* Variant: every Tab is prevented and focus put on the close button.
HandleTabKeyAlwaysPrevent(key, shift, active, elements) ==
    IF key = "Tab" /\ Content \in elements
    THEN [prevented |-> TRUE, active |-> CloseBtn,
          calls |-> <<Call("handleTabKey", "preventDefault"),
                      Call("handleTabKey",
                           IF shift THEN "focusLast" ELSE "focusFirst")>>]
    ELSE [prevented |-> FALSE, active |-> active, calls |-> <<>>]

\* Variant: the listener never wraps.
HandleTabKeyNoWrap(key, shift, active, elements) ==
    [prevented |-> FALSE, active |-> active, calls |-> <<>>]

\* handleTabKey: one run of the document keydown listener.
HandleTabKey(key, shift, active, elements) ==
    LET nothing == [prevented |-> FALSE, active |-> active, calls |-> <<>>]
        focusable == FocusableElements(elements)
        firstElement == IF Len(focusable) > 0 THEN focusable[1] ELSE Null
        lastElement ==
            IF Len(focusable) > 0 THEN focusable[Len(focusable)] ELSE Null
    IN  IF key # "Tab" THEN nothing
        ELSE IF ModalRefCurrent(elements) = Null THEN nothing
        ELSE IF shift
        THEN IF active = firstElement
             THEN [prevented |-> TRUE,
                   active |-> FocusCall(lastElement, elements, active),
                   calls |-> <<Call("handleTabKey", "preventDefault"),
                               Call("handleTabKey", "focusLast")>>]
             ELSE nothing
        ELSE IF active = lastElement
             THEN [prevented |-> TRUE,
                   active |-> FocusCall(firstElement, elements, active),
                   calls |-> <<Call("handleTabKey", "preventDefault"),
                               Call("handleTabKey", "focusFirst")>>]
             ELSE nothing

\* Variant: the closed branch does not call focus().
FocusEffectOnCloseNoRestore(prev, elements, active) == active

\* The focus effect (useEffect on [isOpen]), closed branch: restore focus.
FocusEffectOnClose(prev, elements, active) ==
    IF prev # Null THEN FocusCall(prev, elements, active) ELSE active

\* Variant: no dependency array, the effects run after every render.
DepsChangedAlways(prevDeps, nextDeps) == TRUE

\* The dependency array [isOpen] of both effects: they re-run when it differs
\* from the one of the previous render.
DepsChanged(prevDeps, nextDeps) == prevDeps # nextDeps

\* The focus effect, open branch: the element it saves.
FocusEffectSave(active) == active

\* Variant: the callback does not focus the content box.
TimerCallbackNoFocus(elements, active) == active

\* The callback of the zero-delay timer.
TimerCallback(elements, active) ==
    IF ModalRefCurrent(elements) # Null
    THEN FocusCall(ModalRefCurrent(elements), elements, active)
    ELSE active

\* setTimeout: the id of the new timer (an id no pending timer has).
NewTimerId(pending) ==
    CHOOSE i \in 1..(Cardinality(pending) + 1) :
        /\ i \notin pending
        /\ \A j \in 1..(Cardinality(pending) + 1) : j \notin pending => i <= j

\* Variant: the cleanup leaves the timer pending.
ClearTimeoutNoop(pending, id) == pending

\* clearTimeout(timeoutId), on the set of pending timers.
ClearTimeout(pending, id) == pending \ {id}

\* document.addEventListener / removeEventListener of handleTabKey, on the
\* number of registrations of this instance.
AddListener(n) == n + 1

\* Variant: the cleanup removes nothing.
RemoveListenerNoop(n) == n

RemoveListener(n) == IF n > 0 THEN n - 1 ELSE 0

---------------------------------------------------------------------------
\* The browser.

\* Focusable elements in document order: the host elements before the modal,
\* the modal's focusable elements when rendered, the host elements after it.
DocSeq(elements) ==
    [i \in 1..HostBefore |-> Host(i)]
    \o (IF elements # {} THEN <<Overlay, Content, CloseBtn>> ELSE <<>>)
    \o [i \in 1..HostAfter |-> Host(HostBefore + i)]

\* Reached by sequential (Tab) navigation: tabindex is not -1.
Tabbable(el) == el \in HostElements \/ el = CloseBtn

IndexOf(seq, el) ==
    IF \E i \in 1..Len(seq) : seq[i] = el
    THEN CHOOSE i \in 1..Len(seq) : seq[i] = el
    ELSE 0

\* Default action of Tab / Shift+Tab: the next tabbable element after (before)
\* the active element in document order; past the end focus leaves the
\* document and the active element is the body.
NextTab(active, shift, elements) ==
    LET seq == DocSeq(elements)
        here == IndexOf(seq, active)
        after == {j \in 1..Len(seq) : Tabbable(seq[j]) /\ (here = 0 \/ j > here)}
        before == {j \in 1..Len(seq) : Tabbable(seq[j]) /\ (here = 0 \/ j < here)}
    IN  IF shift
        THEN IF before = {} THEN Body
             ELSE seq[CHOOSE j \in before : \A k \in before : k <= j]
        ELSE IF after = {} THEN Body
             ELSE seq[CHOOSE j \in after : \A k \in after : j <= k]

\* Default action of mousedown: focus goes to the nearest focusable
\* ancestor-or-self of the click target.
ClickFocus(target) ==
    IF target \in {Overlay, CloseBtn} THEN target ELSE Content

\* All registered document keydown listeners run in turn.
RECURSIVE RunListeners(_, _, _, _, _)
RunListeners(n, key, shift, active, elements) ==
    IF n = 0
    THEN [prevented |-> FALSE, active |-> active, calls |-> <<>>]
    ELSE LET r == HandleTabKey(key, shift, active, elements)
             rest == RunListeners(n - 1, key, shift, r.active, elements)
         IN  [prevented |-> r.prevented \/ rest.prevented,
              active |-> rest.active,
              calls |-> r.calls \o rest.calls]

---------------------------------------------------------------------------
\* State.

VARIABLES
    mounted,        \* the host has mounted the component
    isOpen,         \* prop isOpen of the last render
    type,           \* prop type of the last render
    title,          \* prop title of the last render
    message,        \* prop message of the last render
    onClose,        \* prop onClose of the last render
    view,           \* committed render output of the accessible Modal
    basicView,      \* committed render output of the basic Modal
    focus,          \* document.activeElement
    previousActiveElementRef,   \* previousActiveElementRef.current
    timers,         \* ids of the pending focus timers
    focusCleanup,   \* timeoutId held by the focus effect's cleanup, 0 if none
    listeners,      \* registrations of handleTabKey on document
    trapCleanup,    \* the focus-trap effect returned a cleanup
    event,          \* the event or host operation of the last step
    calls,          \* calls the component made during the last step
    openFocus       \* document.activeElement when the modal last opened

vars ==
    <<mounted, isOpen, type, title, message, onClose, view, basicView, focus,
      previousActiveElementRef, timers, focusCleanup, listeners, trapCleanup, event, calls, openFocus>>

Ev(k, key, shift, target) ==
    [kind |-> k, key |-> key, shift |-> shift, target |-> target]

IsOpenNow == mounted /\ isOpen

Init ==
    /\ mounted = FALSE
    /\ isOpen = FALSE
    /\ type = "info"
    /\ title = "Saved"
    /\ message = "Employee added"
    /\ onClose = "closeA"
    /\ view = NullView
    /\ basicView = NullView
    /\ focus \in HostElements \cup {Body}
    /\ previousActiveElementRef = Null
    /\ timers = {}
    /\ focusCleanup = 0
    /\ listeners = 0
    /\ trapCleanup = FALSE
    /\ event = Ev("init", "", FALSE, Null)
    /\ calls = <<>>
    /\ openFocus = Null

\* One host render of the component: render, commit, then the passive
\* effects whose dependency [isOpen] changed (cleanups first, then effects).
\* nowMounted = FALSE is the unmount.
Commit(nowMounted, nowOpen, nowType) ==
    LET wasOpen == isOpen
        newView == IF nowMounted THEN Render(nowOpen, nowType) ELSE NullView
        \* removing the focused element from the document blurs it
        focus1 == IF focus \in ModalElements /\ focus \notin newView.elements
                  THEN Body ELSE focus
        changed == DepsChanged(<<wasOpen>>, <<nowOpen>>)
        runCleanup == mounted /\ (~nowMounted \/ changed)
        runEffect == nowMounted /\ (~mounted \/ changed)
        clears == runCleanup /\ focusCleanup # 0
        removes == runCleanup /\ trapCleanup
        timers1 == IF clears THEN ClearTimeout(timers, focusCleanup)
                   ELSE timers
        listeners1 == IF removes THEN RemoveListener(listeners) ELSE listeners
        newId == NewTimerId(timers1)
        prev == IF mounted THEN previousActiveElementRef ELSE Null
        cleanupCalls ==
            (IF clears THEN <<Call("focusEffect", "clearTimeout")>> ELSE <<>>)
            \o (IF clears /\ focusCleanup \in timers /\ timers1 # timers
                THEN <<Call("clearTimeout", "cancelTimer")>> ELSE <<>>)
            \o (IF removes THEN <<Call("trapEffect", "removeEventListener")>>
                ELSE <<>>)
    IN  /\ mounted' = nowMounted
        /\ isOpen' = nowOpen
        /\ type' = nowType
        /\ view' = newView
        /\ basicView' = IF nowMounted THEN RenderBasic(nowOpen, nowType)
                        ELSE NullView
        /\ IF runEffect /\ nowOpen
           THEN /\ previousActiveElementRef' = FocusEffectSave(focus1)
                /\ openFocus' = focus
                /\ focus' = focus1
                /\ timers' = timers1 \cup {newId}
                /\ focusCleanup' = newId
                /\ listeners' = AddListener(listeners1)
                /\ trapCleanup' = TRUE
                /\ calls' = cleanupCalls
                            \o <<Call("focusEffect", "saveActive"),
                                 Call("focusEffect", "setTimeout"),
                                 Call("trapEffect", "addEventListener")>>
           ELSE IF runEffect
           THEN /\ previousActiveElementRef' = prev
                /\ openFocus' = openFocus
                /\ focus' = FocusEffectOnClose(prev, newView.elements, focus1)
                /\ timers' = timers1
                /\ focusCleanup' = 0
                /\ listeners' = listeners1
                /\ trapCleanup' = FALSE
                /\ calls' = cleanupCalls
                            \o (IF prev # Null
                                THEN <<Call("focusEffect", "restoreFocus")>>
                                ELSE <<>>)
           ELSE IF runCleanup
           THEN /\ previousActiveElementRef' = Null
                /\ openFocus' = Null
                /\ focus' = focus1
                /\ timers' = timers1
                /\ focusCleanup' = 0
                /\ listeners' = listeners1
                /\ trapCleanup' = FALSE
                /\ calls' = cleanupCalls
           ELSE /\ focus' = focus1
                /\ calls' = <<>>
                /\ UNCHANGED <<previousActiveElementRef, openFocus, timers,
                               focusCleanup, listeners, trapCleanup>>

\* The host mounts the component.
Mount(open, t, ttl, msg, cb) ==
    /\ ~mounted
    /\ title' = ttl
    /\ message' = msg
    /\ onClose' = cb
    /\ event' = Ev(IF open THEN "open" ELSE "mount", "", FALSE, Null)
    /\ Commit(TRUE, open, t)

\* The host re-renders the component with new props.
Rerender(open, t, ttl, msg, cb) ==
    /\ mounted
    /\ <<open, t, ttl, msg, cb>> # <<isOpen, type, title, message, onClose>>
    /\ title' = ttl
    /\ message' = msg
    /\ onClose' = cb
    /\ event' = Ev(IF open /\ ~isOpen THEN "open"
                   ELSE IF ~open /\ isOpen THEN "close"
                   ELSE "render", "", FALSE, Null)
    /\ Commit(TRUE, open, t)

\* The host unmounts the component.
Unmount ==
    /\ mounted
    /\ event' = Ev("unmount", "", FALSE, Null)
    /\ UNCHANGED <<title, message, onClose>>
    /\ Commit(FALSE, isOpen, type)

\* Variant: the component hides itself when it has called onClose.
ClickModalSelfClosing(target) ==
    /\ target \in view.elements
    /\ event' = Ev("click", "", FALSE, target)
    /\ calls' = (IF target = CloseBtn THEN CloseButtonOnClick ELSE <<>>)
                \o HandleClickOutside(target, Overlay)
    /\ view' = IF calls' # <<>> THEN NullView ELSE view
    /\ focus' = IF calls' # <<>> THEN Body ELSE ClickFocus(target)
    /\ UNCHANGED <<mounted, isOpen, type, title, message, onClose, basicView,
                   previousActiveElementRef, timers, focusCleanup, listeners,
                   trapCleanup, openFocus>>

\* The user clicks an element of the rendered modal.  The close button's
\* onClick runs first, then the click bubbles to the overlay's onClick.
ClickModal(target) ==
    /\ target \in view.elements
    /\ event' = Ev("click", "", FALSE, target)
    /\ focus' = ClickFocus(target)
    /\ calls' = (IF target = CloseBtn THEN CloseButtonOnClick ELSE <<>>)
                \o HandleClickOutside(target, Overlay)
    /\ UNCHANGED <<mounted, isOpen, type, title, message, onClose, view,
                   basicView, previousActiveElementRef, timers, focusCleanup, listeners,
                   trapCleanup, openFocus>>

\* The user clicks an element of the host page, which the overlay covers
\* while the modal is rendered.
ClickHost(h) ==
    /\ Overlay \notin view.elements
    /\ h \in HostElements
    /\ event' = Ev("click", "", FALSE, h)
    /\ focus' = h
    /\ calls' = <<>>
    /\ UNCHANGED <<mounted, isOpen, type, title, message, onClose, view,
                   basicView, previousActiveElementRef, timers, focusCleanup, listeners,
                   trapCleanup, openFocus>>

\* The user presses a key.  The event targets the active element; the
\* content box's onKeyDown runs if the target is inside the content box, then
\* the document listeners, then the key's default action unless prevented.
KeyDown(key, shift) ==
    LET target == focus
        reactCalls == IF target \in ContentSubtree /\ target \in view.elements
                      THEN HandleKeyDown(key) ELSE <<>>
        doc == RunListeners(listeners, key, shift, focus, view.elements)
        activates == key = "Enter" /\ doc.active = CloseBtn /\ ~doc.prevented
    IN  /\ event' = Ev("keydown", key, shift, target)
        /\ focus' = IF key = "Tab" /\ ~doc.prevented
                    THEN NextTab(doc.active, shift, view.elements)
                    ELSE doc.active
        /\ calls' = reactCalls \o doc.calls
                    \o (IF activates
                        THEN CloseButtonOnClick
                             \o HandleClickOutside(CloseBtn, Overlay)
                        ELSE <<>>)
        /\ UNCHANGED <<mounted, isOpen, type, title, message, onClose, view,
                       basicView, previousActiveElementRef, timers,
                       focusCleanup, listeners, trapCleanup, openFocus>>

\* A pending zero-delay focus timer fires.
FocusTimerFire(id) ==
    /\ id \in timers
    /\ event' = Ev("timer", "", FALSE, Null)
    /\ timers' = timers \ {id}
    /\ focus' = TimerCallback(view.elements, focus)
    /\ calls' = IF ModalRefCurrent(view.elements) # Null
                THEN <<Call("timer", "focusContent")>> ELSE <<>>
    /\ UNCHANGED <<mounted, isOpen, type, title, message, onClose, view,
                   basicView, previousActiveElementRef, focusCleanup, listeners,
                   trapCleanup, openFocus>>

TimerFires == \E id \in timers : FocusTimerFire(id)

Next ==
    \/ \E open \in BOOLEAN, t \in Types, ttl \in Titles, msg \in Messages,
          cb \in Callbacks : Mount(open, t, ttl, msg, cb)
    \/ \E open \in BOOLEAN, t \in Types, ttl \in Titles, msg \in Messages,
          cb \in Callbacks : Rerender(open, t, ttl, msg, cb)
    \/ Unmount
    \/ \E target \in ModalElements : ClickModal(target)
    \/ \E h \in HostElements : ClickHost(h)
    \/ \E key \in Keys, shift \in BOOLEAN : KeyDown(key, shift)
    \/ TimerFires

Spec == Init /\ [][Next]_vars

\* The event loop runs a due timer: a pending focus timer eventually fires
\* unless it is cleared.
FairSpec == Spec /\ WF_vars(TimerFires)

TypeOK ==
    /\ mounted \in BOOLEAN
    /\ isOpen \in BOOLEAN
    /\ type \in Types
    /\ title \in Titles
    /\ message \in Messages
    /\ onClose \in Callbacks
    /\ focus \in HostElements \cup {Body, Overlay, Content, CloseBtn}
    /\ previousActiveElementRef \in HostElements \cup {Body, Null}
    /\ listeners \in 0..1
    /\ Cardinality(timers) <= 1

---------------------------------------------------------------------------
\* Properties.

\* The onClose calls among the calls of the last step.
OnCloseCalls(cs) == SelectSeq(cs, LAMBDA c : c.fn = "onClose")
OnCloseCalled == Len(OnCloseCalls(calls)) > 0
CalledBy(by, fn) == \E i \in 1..Len(calls) : calls[i] = Call(by, fn)

\* C1: a click that reaches the overlay's click handler makes it invoke
\* onClose if and only if the click's target is the overlay itself; a click
\* on the content box, title, message or icon invokes onClose not at all.
C1_ClickOutsideCloses ==
    (event.kind = "click" /\ event.target \in ModalElements) =>
        /\ view.elements # {}
        /\ CalledBy("handleClickOutside", "onClose") <=> event.target = Overlay
        /\ event.target \in {Content, Title, Message, Icon} => ~OnCloseCalled

C1_Witness ==
    /\ event.kind = "click"
    /\ event.target = Overlay
    /\ IsOpenNow
    /\ calls = <<Call("handleClickOutside", "onClose")>>

\* C2: whenever the modal is open, an Escape key press invokes onClose,
\* wherever the keyboard focus is.
C2_EscapeCloses ==
    (IsOpenNow /\ event.kind = "keydown" /\ event.key = "Escape") =>
        OnCloseCalled

\* C3: while the modal is open and focus is on the content box or on a
\* focusable element inside it, a Tab or Shift+Tab key press leaves focus
\* inside the content box.
C3_FocusTrap ==
    [][(/\ IsOpenNow
        /\ focus \in ContentSubtree
        /\ event'.kind = "keydown"
        /\ event'.key = "Tab") => focus' \in ContentSubtree]_vars

\* C4 as stated: when isOpen goes from true to false on the mounted
\* component, focus is on the element that was active when the modal opened.
C4_RestoresActiveAtOpen ==
    [][(IsOpenNow /\ mounted' /\ ~isOpen') => focus' = openFocus]_vars

\* After removal of the modal from the document and before the focus effect.
FocusAfterRemoval(active) == IF active \in ModalElements THEN Body ELSE active

\* The closed branch of the focus effect: when isOpen goes from true to false
\* on the mounted component, focus is moved to the element that was active
\* when the modal opened if that was a focusable element; if it was the body (no element had focus),
\* focus is not moved by the component.
C4_RestoresFocusableAtOpen ==
    [][(IsOpenNow /\ mounted' /\ ~isOpen') =>
        /\ previousActiveElementRef = openFocus
        /\ openFocus \in HostElements => focus' = openFocus
        /\ openFocus \notin HostElements => focus' = FocusAfterRemoval(focus)]_vars

C4_Witness ==
    /\ event.kind = "close"
    /\ openFocus \in HostElements
    /\ focus = openFocus
    /\ CalledBy("focusEffect", "restoreFocus")

\* C5: once isOpen has become true, focus eventually reaches the content box
\* unless the modal is closed or unmounted first; the step that opens the
\* modal schedules the timer and does not itself move focus.
C5_AutomaticFocus ==
    /\ ((IsOpenNow /\ event.kind = "open") ~> (focus = Content \/ ~IsOpenNow))
    /\ [][(~IsOpenNow /\ mounted' /\ isOpen') =>
            /\ focus' = focus
            /\ focus' # Content
            /\ timers' # {}]_vars

C5_Witness ==
    /\ IsOpenNow
    /\ event.kind = "timer"
    /\ focus = Content
    /\ calls = <<Call("timer", "focusContent")>>

\* C6: the render output is null exactly when isOpen is false and holds the
\* overlay, content box, close button, title and message exactly when isOpen
\* is true; no handler of the modal invokes onClose while isOpen is false.
C6_NotRenderedWhenClosed ==
    /\ mounted => (view = NullView <=> ~isOpen)
    /\ mounted =>
         ({Overlay, Content, CloseBtn, Title, Message} \subseteq view.elements
            <=> isOpen)
    /\ ~mounted => view = NullView
    /\ OnCloseCalled => IsOpenNow

C6_Witness ==
    /\ mounted
    /\ ~isOpen
    /\ event.kind = "close"
    /\ view = NullView

\* C7: the instance has exactly one keydown listener on document when it is
\* mounted with isOpen true and none otherwise.
C7_ListenerLifecycle ==
    listeners = IF IsOpenNow THEN 1 ELSE 0

C7_Witness ==
    /\ event.kind \in {"close", "unmount"}
    /\ CalledBy("trapEffect", "removeEventListener")
    /\ listeners = 0

\* C8: a step in which the component invokes onClose changes neither the
\* props nor the render output, keeps the keydown listener, the pending timer
\* and the saved element, and does not restore focus.
C8_FullyControlled ==
    [][Len(OnCloseCalls(calls')) > 0 =>
        /\ UNCHANGED <<mounted, isOpen, type, view, listeners, trapCleanup,
                       timers, focusCleanup, previousActiveElementRef>>
        /\ view' # NullView
        /\ listeners' = 1
        /\ focus' \in ModalElements \cup {focus}
        /\ \A i \in 1..Len(calls') : calls'[i].fn # "restoreFocus"]_vars

C8_Witness ==
    /\ OnCloseCalled
    /\ IsOpenNow
    /\ view # NullView
    /\ listeners = 1
    /\ event.kind = "click"
    /\ event.target = CloseBtn

\* C9: the content box's role is 'alertdialog' if and only if type is
\* 'error' and 'dialog' for 'success' and 'info'; aria-modal is true whenever
\* the modal is rendered.
C9_AriaRole ==
    /\ \A t \in Types : GetRole(t) = "alertdialog" <=> t = "error"
    /\ \A t \in {"success", "info"} : GetRole(t) = "dialog"
    /\ view # NullView =>
         /\ view.role = "alertdialog" <=> type = "error"
         /\ type \in {"success", "info"} => view.role = "dialog"
         /\ view.ariaModal = TRUE

C9_Witness ==
    /\ IsOpenNow
    /\ type = "error"
    /\ view.role = "alertdialog"
    /\ view.ariaModal

\* The documented colour of each type.
DocumentedColor(t) ==
    CASE t = "success" -> "#22c55e"
      [] t = "error" -> "#ef4444"
      [] t = "info" -> "#3b82f6"

\* C10: the icon colour is '#22c55e' for 'success', '#ef4444' for 'error'
\* and '#3b82f6' for 'info', the three colours are distinct, and both
\* revisions compute the same colour for every type.
C10_IconColor ==
    /\ \A t \in Types : GetIconColor(t) = DocumentedColor(t)
    /\ \A t \in Types : GetIconColorBasic(t) = GetIconColor(t)
    /\ \A t, u \in Types : t # u => GetIconColor(t) # GetIconColor(u)
    /\ view # NullView =>
         /\ view.iconColor = DocumentedColor(type)
         /\ basicView.iconColor = view.iconColor

C10_Witness ==
    /\ IsOpenNow
    /\ type = "error"
    /\ view.iconColor = "#ef4444"
    /\ basicView.iconColor = "#ef4444"

\* C11: in the basic revision the overlay is always part of the render
\* output, with display 'flex' exactly when isOpen is true and 'none' exactly
\* when isOpen is false.
C11_BasicVisibility ==
    mounted =>
        /\ Overlay \in basicView.elements
        /\ basicView.display = "flex" <=> isOpen
        /\ basicView.display = "none" <=> ~isOpen

C11_Witness ==
    /\ mounted
    /\ ~isOpen
    /\ event.kind = "close"
    /\ Overlay \in basicView.elements
    /\ basicView.display = "none"

\* C12: a click on the close button invokes onClose exactly once: the
\* button's own handler calls it and the overlay's handler, which the same
\* click bubbles to, does not.
C12_CloseButtonOnce ==
    (event.kind = "click" /\ event.target = CloseBtn) =>
        /\ Len(OnCloseCalls(calls)) = 1
        /\ CalledBy("CloseButton", "onClose")
        /\ ~CalledBy("handleClickOutside", "onClose")

C12_Witness ==
    /\ IsOpenNow
    /\ event.kind = "click"
    /\ event.target = CloseBtn
    /\ calls = <<Call("CloseButton", "onClose")>>

\* C13: while the modal is open, Tab on the last focusable element prevents
\* the default action and focuses the first, Shift+Tab on the first prevents
\* it and focuses the last; with the close button as the only focusable
\* element both leave focus on the close button.
C13_TrapCycles ==
    (/\ IsOpenNow
     /\ event.kind = "keydown"
     /\ event.key = "Tab"
     /\ event.target = CloseBtn) =>
        /\ CalledBy("handleTabKey", "preventDefault")
        /\ event.shift => CalledBy("handleTabKey", "focusLast")
        /\ ~event.shift => CalledBy("handleTabKey", "focusFirst")
        /\ FocusableElements(view.elements) = <<CloseBtn>>
        /\ focus = CloseBtn

C13_Witness ==
    /\ IsOpenNow
    /\ event = Ev("keydown", "Tab", TRUE, CloseBtn)
    /\ focus = CloseBtn
    /\ CalledBy("handleTabKey", "focusLast")

\* C14: when the host unmounts the component while isOpen is true, focus is
\* on the element that was focused before the modal opened.
C14_RestoresOnUnmount ==
    [][(IsOpenNow /\ ~mounted' /\ openFocus \in HostElements) =>
        focus' = openFocus]_vars

\* C15: a focus timer still pending when isOpen becomes false or the
\* component is unmounted is cleared: no timer is pending and no element of
\* the modal has focus while the modal is closed, a timer fires only while the
\* modal is open, and at most one timer is pending, the one the cleanup holds.
C15_TimerCancelled ==
    /\ Cardinality(timers) <= 1
    /\ timers # {} => timers = {focusCleanup}
    /\ ~IsOpenNow => timers = {}
    /\ ~IsOpenNow => focus \notin ModalElements
    /\ event.kind = "timer" => IsOpenNow

C15_Witness ==
    /\ event.kind \in {"close", "unmount"}
    /\ CalledBy("clearTimeout", "cancelTimer")
    /\ timers = {}
    /\ focus \notin ModalElements

\* C16: every closed-to-open transition saves the element active at that
\* moment, every close leaves focus on the element that was active at the most
\* recent open, and a mount with isOpen false moves no focus.
C16_RestoresMostRecentOpen ==
    [][/\ (~IsOpenNow /\ mounted' /\ isOpen') =>
            previousActiveElementRef' = focus
       /\ (IsOpenNow /\ mounted' /\ ~isOpen') =>
            /\ previousActiveElementRef = openFocus
            /\ focus' = openFocus
       /\ (~mounted /\ mounted' /\ ~isOpen') => focus' = focus]_vars

\* C17: a re-render that changes title, message, type or onClose but not
\* isOpen moves no focus, keeps the saved element, schedules and clears no
\* timer and adds and removes no keydown listener.
C17_RerenderSameOpen ==
    [][(mounted /\ mounted' /\ isOpen' = isOpen
        /\ <<type, title, message, onClose>>'
             # <<type, title, message, onClose>>) =>
        /\ UNCHANGED <<focus, previousActiveElementRef, openFocus, timers,
                       focusCleanup, listeners, trapCleanup>>
        /\ calls' = <<>>]_vars

C17_Witness ==
    /\ IsOpenNow
    /\ event.kind = "render"
    /\ calls = <<>>
    /\ timers # {}
    /\ listeners = 1
    /\ previousActiveElementRef \in HostElements
    /\ title = "Failed"
    /\ onClose = "closeB"

\* The calls of the last step made by handleTabKey.
TabKeyCalls == SelectSeq(calls, LAMBDA c : c.by = "handleTabKey")

\* The last key press is one of the two wrap cases of handleTabKey.
IsWrapCase ==
    LET focusable == FocusableElements(view.elements)
    IN  /\ IsOpenNow
        /\ event.key = "Tab"
        /\ Len(focusable) > 0
        /\ \/ event.shift /\ event.target = focusable[1]
           \/ ~event.shift /\ event.target = focusable[Len(focusable)]

====
